---- MODULE Spec2Model ----
(***************************************************************************)
(* Model of MealFiltersComponent (src/src/components/                      *)
(* MealFiltersComponent.tsx): a controlled React component that keeps a    *)
(* local draft of the search text (localSearch), reconciles it with the    *)
(* parent-owned `filters` prop through a 300 ms debounce timer, and turns  *)
(* category / sort / tag / clear interactions into onFiltersChange calls.  *)
(*                                                                         *)
(* Encoding.  A JavaScript string is a sequence of one-character strings.  *)
(* An optional field is <<>> when it is undefined and <<v>> when it holds  *)
(* v, so the empty string and the empty array (both << <<>> >>) stay       *)
(* distinct from undefined.  A key that is missing and a                   *)
(* key whose value is undefined are not told apart: the component only     *)
(* reads fields through `||`, `===`, `?.` and the effect dependency check, *)
(* all of which treat the two alike.                                       *)
(*                                                                         *)
(* The parent is a controlled-component owner: it stores the object passed *)
(* to onFiltersChange and passes it back as the `filters` prop; it may     *)
(* also replace `filters` on its own (ExternalChange).  React runs an      *)
(* event handler, the re-render it causes and the effects of that render   *)
(* before any other event or timer callback, so each is one action.        *)
(* onFiltersChange itself is taken to be a stable function reference.      *)
(*                                                                         *)
(* Three specifications run the same actions on different inputs: Spec    *)
(* types every search text up to MaxLen into a panel with one category,    *)
(* one sort key and one dietary tag; SpecPanel offers two categories, one  *)
(* sort key and MaxTag dietary tags and types only a short search text;    *)
(* SpecConverge types a few search texts into the smallest panel and adds  *)
(* weak fairness of time passing and of timer expiry, for liveness.        *)
(***************************************************************************)
EXTENDS Integers, Sequences, FiniteSets, TLC

VARIABLES
    mounted,      \* the component instance is mounted
    filters,      \* the `filters` prop: the committed FilterState
    localSearch,  \* useState draft of the search text
    timers,       \* pending setTimeout entries of the host, in creation order
    timer,        \* the timer id held by the debounce effect's cleanup closure
    lastEvent,    \* history: the last event that ran (time passing excluded); a
                  \*          change by the parent is "externalSearch" when it changed
                  \*          the search field and "externalSame" when it did not
    emitted,      \* history: the arguments of the onFiltersChange calls of that event
    prevDraft,    \* history: <<V>> when that event directly followed a draft edit
                  \*          to V (for a timer expiry: when it followed two draft
                  \*          edits in a row, of which the first was to V)
    firedAfter    \* history: when that event was a timer expiry, the event that
                  \*          preceded it; "none" otherwise

vars == <<mounted, filters, localSearch, timers, timer,
          lastEvent, emitted, prevDraft, firedAfter>>

-----------------------------------------------------------------------------
(* Bounds of the model *)

MaxLen == 2     \* longest search text typed
MaxTag == 3     \* dietary tag ids are 1..MaxTag

(* Program constants *)

DebounceMs == 300

\* granularity with which time passes
TickMs == DebounceMs \div 2

Chars == {" ", "a"}

Strings == UNION {[1..n -> Chars] : n \in 0..MaxLen}

ShortStrings == {<<>>, <<"a">>}

\* options of the category Select offered in SpecPanel
CategoryOptions == {"all", "Best for Breakfast", "Best for Lunch"}

\* options of the sort Select offered in SpecPanel
SortKeys == {"name"}

TagIds == 1..MaxTag

-----------------------------------------------------------------------------
(* JavaScript values *)

undefined == <<>>

Range(s) == {s[i] : i \in 1..Len(s)}

RECURSIVE trimStart(_)
trimStart(s) ==
    IF s # <<>> /\ Head(s) = " " THEN trimStart(Tail(s)) ELSE s

RECURSIVE trimEnd(_)
trimEnd(s) ==
    IF s # <<>> /\ s[Len(s)] = " " THEN trimEnd(SubSeq(s, 1, Len(s) - 1)) ELSE s

\* (a trim of the leading spaces only)
trim_StartOnly(s) == trimStart(s)

\* String.prototype.trim
trim(s) == trimEnd(trimStart(s))

\* `filters.search || ''`
SearchOrEmpty(f) == IF f.search = undefined THEN <<>> ELSE f.search[1]

\* (the trimmed text kept when empty)
OrUndefined_KeepEmpty(s) == <<s>>

\* `trimmedSearch || undefined`
OrUndefined(s) == IF s = <<>> THEN undefined ELSE <<s>>

\* `{}`
EmptyFilters ==
    [search |-> undefined, category |-> undefined, sort_by |-> undefined,
     sort_order |-> undefined, dietary_tags |-> undefined]

\* (a flag that counts a sort as a filter)
hasActiveFilters_CountsSort(f) ==
    \/ (f.search # undefined /\ f.search[1] # <<>>)
    \/ (f.category # undefined /\ f.category[1] # "")
    \/ (f.dietary_tags # undefined /\ Len(f.dietary_tags[1]) > 0)
    \/ f.sort_by # undefined

\* hasActiveFilters
hasActiveFilters(f) ==
    \/ (f.search # undefined /\ f.search[1] # <<>>)
    \/ (f.category # undefined /\ f.category[1] # "")
    \/ (f.dietary_tags # undefined /\ Len(f.dietary_tags[1]) > 0)

-----------------------------------------------------------------------------
(* Host timers *)

NewTimerId(ts) ==
    CHOOSE i \in 1..(Len(ts) + 1) :
        /\ \A k \in 1..Len(ts) : ts[k].id # i
        /\ \A j \in 1..(i - 1) : \E k \in 1..Len(ts) : ts[k].id = j

\* clearTimeout(id): a no-op when the timer has fired already
clearTimeout(ts, id) == SelectSeq(ts, LAMBDA t : t.id # id)

-----------------------------------------------------------------------------
(* The two effects.  r is the host state an effect works on: [timers, timer]. *)

\* (a cleanup that does not cancel the timer)
DebounceCleanup_NoClear(r) == r

\* return () => clearTimeout(timer)
DebounceCleanup(r) ==
    [timers |-> clearTimeout(r.timers, r.timer), timer |-> r.timer]

\* (an effect that leaves a pending timer running instead of restarting it)
DebounceEffect_KeepPending(r, ls, f) ==
    IF \E k \in 1..Len(r.timers) : r.timers[k].id = r.timer
    THEN r
    ELSE [timers |-> Append(r.timers, [id |-> NewTimerId(r.timers),
                                       remaining |-> DebounceMs,
                                       localSearch |-> ls, filters |-> f]),
          timer  |-> NewTimerId(r.timers)]

\* (an effect that sets its timer without the previous run's cleanup)
DebounceEffect_NoCleanup(r, ls, f) ==
    [timers |-> Append(r.timers, [id |-> NewTimerId(r.timers), remaining |-> DebounceMs,
                                  localSearch |-> ls, filters |-> f]),
     timer  |-> NewTimerId(r.timers)]

\* (an effect whose callback closes over the filters of the render before)
DebounceEffect_StaleFilters(r, ls, f) ==
    LET c  == DebounceCleanup(r)
        id == NewTimerId(c.timers)
    IN  [timers |-> Append(c.timers, [id |-> id, remaining |-> DebounceMs,
                                      localSearch |-> ls, filters |-> filters]),
         timer  |-> id]

\* The debounce effect re-runs (dependency localSearch or filters changed):
\* the previous run's cleanup, then setTimeout(callback, 300) with the
\* callback closing over this render's localSearch and filters.
DebounceEffect(r, ls, f) ==
    LET c  == DebounceCleanup(r)
        id == NewTimerId(c.timers)
    IN  [timers |-> Append(c.timers, [id |-> id, remaining |-> DebounceMs,
                                      localSearch |-> ls, filters |-> f]),
         timer  |-> id]

\* (a reset effect that never runs)
ResetEffect_Never(ls, oldSearch, f) == ls

\* (a reset effect that follows a clear only)
ResetEffect_OnClearOnly(ls, oldSearch, f) ==
    IF f.search # oldSearch /\ f.search = undefined THEN <<>> ELSE ls

\* The reset effect, keyed on filters.search: the draft after the render
\* in which the prop's search went from oldSearch to f.search.
ResetEffect(ls, oldSearch, f) ==
    IF f.search # oldSearch THEN SearchOrEmpty(f) ELSE ls

\* (a render whose debounce effect depends on the draft alone)
Render_DraftDepOnly(ts, f) ==
    LET r1  == [timers |-> ts, timer |-> timer]
        ls1 == ResetEffect(localSearch, filters.search, f)
        r2  == IF ls1 # localSearch THEN DebounceEffect(r1, ls1, f) ELSE r1
    IN  /\ filters' = f
        /\ localSearch' = ls1
        /\ timers' = r2.timers
        /\ timer' = r2.timer

\* The parent passes a new `filters` object f while the host's pending timers
\* are ts: render, then both effects; when the reset effect changed the
\* draft, a second render follows in which the debounce effect runs again with
\* the new draft.
Render(ts, f) ==
    LET r1  == DebounceEffect([timers |-> ts, timer |-> timer], localSearch, f)
        ls1 == ResetEffect(localSearch, filters.search, f)
        r2  == IF ls1 # localSearch THEN DebounceEffect(r1, ls1, f) ELSE r1
    IN  /\ filters' = f
        /\ localSearch' = ls1
        /\ timers' = r2.timers
        /\ timer' = r2.timer

\* onFiltersChange(f): the call is recorded and the parent applies f.
onFiltersChange(f) ==
    /\ emitted' = <<f>>
    /\ Render(timers, f)

-----------------------------------------------------------------------------
(* Initial state: mounted with some committed FilterState; the mount       *)
(* render has run both effects, so a first debounce timer is pending.      *)

\* trimmed, non-empty search texts: the values the component itself commits
CommittedSearches(drafts) == {<<s>> : s \in {t \in drafts : t # <<>> /\ trim(t) = t}}

\* arrays of distinct tag ids, non-empty
TagLists(tagIds) ==
    {<<l>> : l \in {s \in UNION {[1..n -> tagIds] : n \in 1..Cardinality(tagIds)} :
                      \A i, j \in 1..Len(s) : s[i] = s[j] => i = j}}

\* the committed states the component is mounted with: minimal ones, the
\* sort either unset or set by an earlier handleSortChange
FilterStates(drafts, categories, sortKeys, tagIds) ==
    {f \in [search       : {undefined} \cup CommittedSearches(drafts),
            category     : {undefined} \cup {<<c>> : c \in categories \ {"all"}},
            sort_by      : {undefined} \cup {<<k>> : k \in sortKeys},
            sort_order   : {undefined, <<"asc">>, <<"desc">>},
            dietary_tags : {undefined} \cup TagLists(tagIds)] :
        (f.sort_by = undefined) <=> (f.sort_order = undefined)}

InitWith(filterStates) ==
    /\ mounted = TRUE
    /\ filters \in filterStates
    /\ localSearch = SearchOrEmpty(filters)
    /\ timers = <<[id |-> 1, remaining |-> DebounceMs,
                   localSearch |-> localSearch, filters |-> filters]>>
    /\ timer = 1
    /\ lastEvent = "mount"
    /\ emitted = <<>>
    /\ prevDraft = undefined
    /\ firedAfter = "none"

-----------------------------------------------------------------------------
(* Events *)

\* the draft, when the last event was the draft edit that typed it
DraftJustTyped == IF lastEvent = "search" THEN <<localSearch>> ELSE undefined

\* handleSearchChange: the input's onChange, fired when its text changes
handleSearchChange(search) ==
    /\ mounted
    /\ search # localSearch
    /\ localSearch' = search
    /\ LET r == DebounceEffect([timers |-> timers, timer |-> timer], search, filters)
       IN  /\ timers' = r.timers
           /\ timer' = r.timer
    /\ emitted' = <<>>
    /\ lastEvent' = "search"
    /\ prevDraft' = DraftJustTyped
    /\ firedAfter' = "none"
    /\ UNCHANGED <<mounted, filters>>

\* (a category handler that stores the sentinel)
handleCategoryChange_KeepAll(category) ==
    /\ mounted
    /\ onFiltersChange([filters EXCEPT !.category = <<category>>])
    /\ lastEvent' = "category"
    /\ prevDraft' = DraftJustTyped
    /\ firedAfter' = "none"
    /\ UNCHANGED mounted

handleCategoryChange(category) ==
    /\ mounted
    /\ onFiltersChange([filters EXCEPT
                          !.category = IF category = "all" THEN undefined
                                       ELSE <<category>>])
    /\ lastEvent' = "category"
    /\ prevDraft' = DraftJustTyped
    /\ firedAfter' = "none"
    /\ UNCHANGED mounted

handleSortChange(sortBy, sortOrder) ==
    /\ mounted
    /\ onFiltersChange([filters EXCEPT !.sort_by = <<sortBy>>,
                                       !.sort_order = <<sortOrder>>])
    /\ lastEvent' = "sort"
    /\ prevDraft' = DraftJustTyped
    /\ firedAfter' = "none"
    /\ UNCHANGED mounted

\* the sort Select: onValueChange(value)
SortSelect(value) ==
    handleSortChange(value, IF filters.sort_order = undefined THEN "desc"
                            ELSE filters.sort_order[1])

\* (a direction button that takes an absent direction for ascending)
SortDirectionButton_AbsentIsAsc ==
    handleSortChange(IF filters.sort_by = undefined THEN "created_at"
                     ELSE filters.sort_by[1],
                     IF filters.sort_order = <<"desc">> THEN "asc" ELSE "desc")

\* the direction Button: onClick
SortDirectionButton ==
    handleSortChange(IF filters.sort_by = undefined THEN "created_at"
                     ELSE filters.sort_by[1],
                     IF filters.sort_order = <<"asc">> THEN "desc" ELSE "asc")

\* (a toggle that puts a new tag first)
newTags_Prepend(f, tagId) ==
    LET currentTags == IF f.dietary_tags = undefined THEN <<>> ELSE f.dietary_tags[1]
    IN  IF tagId \in Range(currentTags)
        THEN SelectSeq(currentTags, LAMBDA id : id # tagId)
        ELSE <<tagId>> \o currentTags

\* (a toggle that appends the tag whether or not it is there)
newTags_AlwaysAppend(f, tagId) ==
    LET currentTags == IF f.dietary_tags = undefined THEN <<>> ELSE f.dietary_tags[1]
    IN  Append(currentTags, tagId)

\* the new tag array computed by handleDietaryTagToggle
newTags(f, tagId) ==
    LET currentTags == IF f.dietary_tags = undefined THEN <<>> ELSE f.dietary_tags[1]
    IN  IF tagId \in Range(currentTags)
        THEN SelectSeq(currentTags, LAMBDA id : id # tagId)
        ELSE Append(currentTags, tagId)

handleDietaryTagToggle(tagId) ==
    /\ mounted
    /\ onFiltersChange([filters EXCEPT
                          !.dietary_tags = IF Len(newTags(filters, tagId)) > 0
                                           THEN <<newTags(filters, tagId)>>
                                           ELSE undefined])
    /\ lastEvent' = "tag"
    /\ prevDraft' = DraftJustTyped
    /\ firedAfter' = "none"
    /\ UNCHANGED mounted

\* (a clear that keeps the sort)
clearAllFilters_KeepsSort ==
    /\ mounted
    /\ hasActiveFilters(filters)
    /\ onFiltersChange([EmptyFilters EXCEPT !.sort_by = filters.sort_by,
                                            !.sort_order = filters.sort_order])
    /\ lastEvent' = "clear"
    /\ prevDraft' = DraftJustTyped
    /\ firedAfter' = "none"
    /\ UNCHANGED mounted

\* the Clear button, rendered only while hasActiveFilters
clearAllFilters ==
    /\ mounted
    /\ hasActiveFilters(filters)
    /\ onFiltersChange(EmptyFilters)
    /\ lastEvent' = "clear"
    /\ prevDraft' = DraftJustTyped
    /\ firedAfter' = "none"
    /\ UNCHANGED mounted

\* (a callback without the comparison with the committed search)
DebounceCallback_NoGuard(ls, f) ==
    <<[f EXCEPT !.search = OrUndefined(trim(ls))]>>

\* (a callback that compares the draft as typed)
DebounceCallback_Untrimmed(ls, f) ==
    IF ls # SearchOrEmpty(f)
    THEN <<[f EXCEPT !.search = OrUndefined(trim(ls))]>>
    ELSE <<>>

\* (a callback that emits the draft as typed)
DebounceCallback_EmitsUntrimmed(ls, f) ==
    IF trim(ls) # SearchOrEmpty(f)
    THEN <<[f EXCEPT !.search = OrUndefined(ls)]>>
    ELSE <<>>

\* The timer callback, closed over the localSearch and filters of the render
\* that set the timer: the onFiltersChange calls it makes.
DebounceCallback(ls, f) ==
    LET trimmedSearch == trim(ls)
    IN  IF trimmedSearch # SearchOrEmpty(f)
        THEN <<[f EXCEPT !.search = OrUndefined(trimmedSearch)]>>
        ELSE <<>>

\* The host runs the callback of the oldest timer whose delay has elapsed.
\* The callback reads the localSearch and filters of the render that set it.
TimerFire ==
    /\ timers # <<>>
    /\ Head(timers).remaining = 0
    /\ LET calls == DebounceCallback(Head(timers).localSearch, Head(timers).filters)
       IN  /\ emitted' = calls
           /\ IF calls # <<>>
              THEN IF mounted
                   THEN Render(Tail(timers), calls[1])
                   ELSE /\ filters' = calls[1]
                        /\ timers' = Tail(timers)
                        /\ UNCHANGED <<localSearch, timer>>
              ELSE /\ timers' = Tail(timers)
                   /\ UNCHANGED <<filters, localSearch, timer>>
    /\ lastEvent' = "timer"
    /\ prevDraft' = IF lastEvent = "search" THEN prevDraft ELSE undefined
    /\ firedAfter' = lastEvent
    /\ UNCHANGED mounted

\* Time passes, but never beyond the expiry of a pending timer.
Tick ==
    /\ timers # <<>>
    /\ \A k \in 1..Len(timers) : timers[k].remaining > 0
    /\ timers' = [k \in 1..Len(timers) |->
                    [timers[k] EXCEPT !.remaining =
                        IF @ > TickMs THEN @ - TickMs ELSE 0]]
    /\ UNCHANGED <<mounted, filters, localSearch, timer,
                   lastEvent, emitted, prevDraft, firedAfter>>

\* The parent replaces the filters prop on its own, with a new object whose
\* search field is `search` (possibly the value it had).
ExternalChange(search) ==
    /\ mounted
    /\ Render(timers, [filters EXCEPT !.search = search])
    /\ emitted' = <<>>
    /\ lastEvent' = IF search # filters.search THEN "externalSearch" ELSE "externalSame"
    /\ prevDraft' = DraftJustTyped
    /\ firedAfter' = "none"
    /\ UNCHANGED mounted

\* (an unmount that leaves the timer pending)
Unmount_NoCleanup ==
    /\ mounted
    /\ mounted' = FALSE
    /\ emitted' = <<>>
    /\ lastEvent' = "unmount"
    /\ prevDraft' = DraftJustTyped
    /\ firedAfter' = "none"
    /\ UNCHANGED <<filters, localSearch, timers, timer>>

\* Unmount: React runs the cleanup of every effect.
Unmount ==
    /\ mounted
    /\ mounted' = FALSE
    /\ LET r == DebounceCleanup([timers |-> timers, timer |-> timer])
       IN  /\ timers' = r.timers
           /\ timer' = r.timer
    /\ emitted' = <<>>
    /\ lastEvent' = "unmount"
    /\ prevDraft' = DraftJustTyped
    /\ firedAfter' = "none"
    /\ UNCHANGED <<filters, localSearch>>

-----------------------------------------------------------------------------
(* Spec: every search text, a small panel *)

SearchCategories == {"all", "Best for Lunch"}

SearchSortKeys == {"name"}

SearchTagIds == {1}

Init == InitWith(FilterStates(Strings, SearchCategories, SearchSortKeys, SearchTagIds))

Next ==
    \/ \E search \in Strings : handleSearchChange(search)
    \/ \E category \in SearchCategories : handleCategoryChange(category)
    \/ \E value \in SearchSortKeys : SortSelect(value)
    \/ SortDirectionButton
    \/ \E tagId \in SearchTagIds : handleDietaryTagToggle(tagId)
    \/ clearAllFilters
    \/ TimerFire
    \/ Tick
    \/ \E search \in {undefined} \cup CommittedSearches(Strings) : ExternalChange(search)
    \/ Unmount

Spec == Init /\ [][Next]_vars

(* SpecConverge: a few search texts, the smallest panel, and the host's  *)
(* scheduling: time passes, and a timer whose delay has elapsed runs its  *)
(* callback.                                                              *)

ConvergeDrafts == {<<>>, <<" ">>, <<"a">>, <<"a", " ">>}

ConvergeCategories == {"all"}

InitConverge ==
    InitWith(FilterStates(ConvergeDrafts, ConvergeCategories, {}, SearchTagIds))

NextConverge ==
    \/ \E search \in ConvergeDrafts : handleSearchChange(search)
    \/ \E category \in ConvergeCategories : handleCategoryChange(category)
    \/ \E value \in SearchSortKeys : SortSelect(value)
    \/ SortDirectionButton
    \/ \E tagId \in SearchTagIds : handleDietaryTagToggle(tagId)
    \/ clearAllFilters
    \/ TimerFire
    \/ Tick
    \/ \E search \in {undefined} \cup CommittedSearches(ConvergeDrafts) : ExternalChange(search)
    \/ Unmount

SpecConverge == InitConverge /\ [][NextConverge]_vars /\ WF_vars(Tick) /\ WF_vars(TimerFire)

(* SpecPanel: a larger panel, a short search text *)

InitPanel == InitWith(FilterStates(ShortStrings, CategoryOptions, SortKeys, TagIds))

NextPanel ==
    \/ \E search \in ShortStrings : handleSearchChange(search)
    \/ \E category \in CategoryOptions : handleCategoryChange(category)
    \/ \E value \in SortKeys : SortSelect(value)
    \/ SortDirectionButton
    \/ \E tagId \in TagIds : handleDietaryTagToggle(tagId)
    \/ clearAllFilters
    \/ TimerFire
    \/ Tick
    \/ \E search \in {undefined} \cup CommittedSearches(ShortStrings) : ExternalChange(search)
    \/ Unmount

SpecPanel == InitPanel /\ [][NextPanel]_vars

-----------------------------------------------------------------------------
(* Vocabulary of the properties, stated without the operators of the model *)

\* the text v without its leading and trailing spaces
Stripped(v) ==
    LET inked == {k \in 1..Len(v) : v[k] # " "}
    IN  IF inked = {} THEN <<>>
        ELSE SubSeq(v, CHOOSE i \in inked : \A k \in inked : i <= k,
                       CHOOSE j \in inked : \A k \in inked : k <= j)

\* the committed search text, the empty text when the field is absent
CommittedText(f) == IF f.search = <<>> THEN <<>> ELSE f.search[1]

\* the search field that commits the text t: absent for the empty text
SearchField(t) == IF Len(t) = 0 THEN <<>> ELSE <<t>>

\* f and g agree on every field but (possibly) field k
SameExcept(f, g, k) ==
    \A x \in {"search", "category", "sort_by", "sort_order", "dietary_tags"} \ {k} :
        f[x] = g[x]

\* the FilterState f with its search field committing the text of draft v
WithDraft(f, v) ==
    [search |-> SearchField(Stripped(v)), category |-> f.category,
     sort_by |-> f.sort_by, sort_order |-> f.sort_order,
     dietary_tags |-> f.dietary_tags]

\* the step is a draft edit (to the draft it leaves)
EditsDraft == handleSearchChange(localSearch')

-----------------------------------------------------------------------------
(* C1 *)

\* C1 as stated: when the draft was edited to V1 and then, before the timer of
\* the first edit expired, to V2, the next expiry calls onFiltersChange exactly
\* once, with search = trim(V2), and the edits themselves call nothing.
C1_ExactlyOneEmission ==
    [][/\ (lastEvent = "search" /\ prevDraft # undefined /\ TimerFire)
            => emitted' = <<WithDraft(filters, localSearch)>>
       /\ EditsDraft => emitted' = <<>>]_vars

\* C1, amended: after the edits to V1 and then V2 the expiry calls
\* onFiltersChange at most once: once, with search = trim(V2) (absent when
\* empty) and the other fields as committed, when trim(V2) differs from the
\* committed search, and not at all when it equals it; the edits themselves
\* call nothing, so nothing carrying only V1 is emitted.
C1_LastWriteWins ==
    [][/\ (lastEvent = "search" /\ prevDraft # undefined /\ TimerFire)
            => /\ Stripped(localSearch) # CommittedText(filters)
                    => emitted' = <<WithDraft(filters, localSearch)>>
               /\ Stripped(localSearch) = CommittedText(filters)
                    => emitted' = <<>>
       /\ EditsDraft => emitted' = <<>>]_vars

\* reached: V1 then V2 were typed, the timer expired and committed trim(V2),
\* which is not trim(V1)
C1_Witness ==
    /\ lastEvent = "timer"
    /\ prevDraft # undefined
    /\ Len(emitted) = 1
    /\ emitted[1].search # SearchField(Stripped(prevDraft[1]))
    /\ Stripped(prevDraft[1]) # <<>>

-----------------------------------------------------------------------------
(* C2 *)

\* C2 as stated: for every committed F and draft V, the expiry that follows the
\* edit to V emits exactly one FilterState, F with search = trim(V).
C2_AlwaysEmits ==
    [][(lastEvent = "search" /\ TimerFire)
            => emitted' = <<WithDraft(filters, localSearch)>>]_vars

\* C2, amended: the expiry that follows the edit to V emits exactly one
\* FilterState, equal to F except search = trim(V) (absent when empty), when
\* trim(V) differs from the committed search (absent counting as empty); when
\* it equals the committed search the expiry emits nothing.
C2_EmitsTrimmedDraft ==
    [][(lastEvent = "search" /\ TimerFire)
            => IF Stripped(localSearch) = CommittedText(filters)
               THEN emitted' = <<>> /\ filters' = filters
               ELSE /\ Len(emitted') = 1
                    /\ emitted'[1].search = SearchField(Stripped(localSearch))
                    /\ SameExcept(emitted'[1], filters, "search")
                    /\ filters' = emitted'[1]]_vars

\* reached: a draft with a leading or trailing space was typed over a committed
\* state with a category and no search, and its trimmed text was emitted
C2_Witness ==
    /\ lastEvent = "timer"
    /\ prevDraft = undefined
    /\ emitted = <<filters>>
    /\ filters.search = << <<"a">> >>
    /\ filters.category # undefined

-----------------------------------------------------------------------------
(* C3 *)

-----------------------------------------------------------------------------
(* C4 *)

\* C4: once Clear has been invoked and the parent has applied the empty
\* FilterState, the draft equals the committed search, the empty string; and
\* the timer expiry that follows emits nothing.
C4_DraftFollowsClear ==
    lastEvent = "clear" => (filters = EmptyFilters /\ localSearch = <<>>)

-----------------------------------------------------------------------------
(* C5 *)

\* C5: after the unmount no timer is pending and onFiltersChange is not
\* called: the committed state stays what it was.
C5_NoEmissionAfterUnmount ==
    ~mounted => (timers = <<>> /\ emitted = <<>> /\ lastEvent = "unmount")

\* reached: unmounted right after a draft edit that was still uncommitted
C5_Witness ==
    /\ ~mounted
    /\ prevDraft # undefined
    /\ Stripped(localSearch) # CommittedText(filters)
    /\ timers = <<>>

-----------------------------------------------------------------------------
(* C6 *)

\* C6: at most one debounce timer is pending, it is the one the effect's
\* cleanup holds, and its callback sees the current draft and committed state;
\* after an expiry the timer left pending (if any) cannot emit, so two
\* expirations in a row never both emit.
C6_OneLiveTimer ==
    /\ Len(timers) <= 1
    /\ \A k \in 1..Len(timers) :
          /\ timers[k].id = timer
          /\ timers[k].localSearch = localSearch
          /\ timers[k].filters = filters
          /\ lastEvent = "timer"
                => Stripped(timers[k].localSearch) = CommittedText(timers[k].filters)

\* reached: a second edit arrived while the timer of the first was pending;
\* one timer, freshly started, is pending
C6_Witness ==
    /\ lastEvent = "search"
    /\ prevDraft # undefined
    /\ Len(timers) = 1
    /\ timers[1].remaining = DebounceMs

-----------------------------------------------------------------------------
(* C7 *)

\* C7: the committed FilterState is minimal: its search is absent or a text
\* with a character that is not a space, its dietary-tag array is absent or
\* non-empty, its category is absent or a category other than 'all'.
C7_Minimal ==
    /\ filters.search # <<>>
          => \E k \in 1..Len(filters.search[1]) : filters.search[1][k] # " "
    /\ filters.dietary_tags # <<>> => Len(filters.dietary_tags[1]) >= 1
    /\ filters.category # << "all" >>
    /\ filters.category # << "" >>

\* reached: a draft of spaces only (or emptied) was committed over a search,
\* and the committed search is absent
C7_Witness ==
    /\ lastEvent = "timer"
    /\ Len(emitted) = 1
    /\ filters = emitted[1]
    /\ filters.search = <<>>
    /\ filters.dietary_tags # <<>>

-----------------------------------------------------------------------------
(* C8 *)

\* the draft holds a text the committed search does not
Uncommitted == Stripped(localSearch) # CommittedText(filters)

\* C8: a category pick, sort change, tag toggle or clear calls onFiltersChange
\* exactly once, in the step of the action; a draft edit calls nothing in its
\* step; a timer expiry calls at most once, only for a draft that an edit left
\* uncommitted, and leaves none uncommitted; and only a draft edit makes the
\* draft uncommitted, so no action is answered by two calls.
C8_OncePerAction ==
    [][/\ (/\ lastEvent' \in {"category", "sort", "tag", "clear"}
           /\ \/ \E category \in SearchCategories : handleCategoryChange(category)
              \/ \E value \in SearchSortKeys : SortSelect(value)
              \/ SortDirectionButton
              \/ \E tagId \in SearchTagIds : handleDietaryTagToggle(tagId)
              \/ clearAllFilters)
            => Len(emitted') = 1 /\ filters' = emitted'[1]
       /\ EditsDraft => emitted' = <<>>
       /\ TimerFire
            => /\ Len(emitted') <= 1
               /\ emitted' # <<>> => Uncommitted
               /\ ~Uncommitted'
       /\ (~Uncommitted /\ ~EditsDraft) => ~Uncommitted']_vars

\* reached: a debounced emission was applied by the parent, the component
\* re-evaluated and started a timer, whose callback has nothing to commit
C8_Witness ==
    /\ lastEvent = "timer"
    /\ Len(emitted) = 1
    /\ filters = emitted[1]
    /\ Len(timers) = 1
    /\ timers[1].remaining = DebounceMs
    /\ Stripped(timers[1].localSearch) = CommittedText(timers[1].filters)

-----------------------------------------------------------------------------
(* C9 *)

\* the committed tag array, empty when the field is absent
CommittedTags(f) == IF f.dietary_tags = <<>> THEN <<>> ELSE f.dietary_tags[1]

\* the place of x in the array T
PlaceIn(T, x) == CHOOSE i \in 1..Len(T) : T[i] = x

\* C9: toggling tag t over the committed tag array T emits one FilterState, the
\* committed one with only the tag field changed: T with t appended when t is
\* not in T; T without t, the others in their order, when t is in T; and the
\* field is absent when that leaves no tag.
C9_TagToggle ==
    [][\A t \in TagIds :
          handleDietaryTagToggle(t) =>
            LET T == CommittedTags(filters)
                N == CommittedTags(emitted'[1])
            IN  /\ Len(emitted') = 1
                /\ SameExcept(emitted'[1], filters, "dietary_tags")
                /\ emitted'[1].dietary_tags # << <<>> >>
                /\ (\A i \in 1..Len(T) : T[i] # t)
                      => /\ Len(N) = Len(T) + 1
                         /\ N[Len(N)] = t
                         /\ \A i \in 1..Len(T) : N[i] = T[i]
                /\ (\E i \in 1..Len(T) : T[i] = t)
                      => /\ {N[i] : i \in 1..Len(N)} = {T[i] : i \in 1..Len(T)} \ {t}
                         /\ Len(N) = Len(T) - 1
                         /\ \A i, j \in 1..Len(N) :
                               i < j => PlaceIn(T, N[i]) < PlaceIn(T, N[j])]_vars

\* reached: the last remaining tag was toggled off over a committed state with
\* a category, and the tag field is absent
C9_Witness ==
    /\ lastEvent = "tag"
    /\ Len(emitted) = 1
    /\ emitted[1].dietary_tags = <<>>
    /\ emitted[1].category # <<>>

-----------------------------------------------------------------------------
(* C10 *)

\* C10: picking category c emits one FilterState, the committed one with only
\* the category changed: to c, or to absent when c is the sentinel 'all'.
C10_CategoryChange ==
    [][\A c \in CategoryOptions :
          handleCategoryChange(c) =>
            /\ Len(emitted') = 1
            /\ SameExcept(emitted'[1], filters, "category")
            /\ c # "all" => emitted'[1].category = <<c>>
            /\ c = "all" => emitted'[1].category = <<>>]_vars

\* reached: 'all' was picked over a committed state with tags, and the emitted
\* state has the tags and no category
C10_Witness ==
    /\ lastEvent = "category"
    /\ Len(emitted) = 1
    /\ emitted[1].category = <<>>
    /\ emitted[1].dietary_tags # <<>>

-----------------------------------------------------------------------------
(* C11 *)

\* the sort key and direction in effect: creation time, descending, when absent
EffectiveKey(f) == IF f.sort_by = <<>> THEN "created_at" ELSE f.sort_by[1]

EffectiveOrder(f) == IF f.sort_order = <<>> THEN "desc" ELSE f.sort_order[1]

\* f and g agree on search, category and dietary tags
SameConstraints(f, g) ==
    /\ f.search = g.search
    /\ f.category = g.category
    /\ f.dietary_tags = g.dietary_tags

\* C11: picking sort key k emits the committed state with key k and the
\* direction in effect; the direction button emits it with the key in effect
\* and the other one of the two directions, so that two presses restore the
\* direction in effect; search, category and tags are emitted unchanged.
C11_SortChange ==
    [][/\ \A k \in SortKeys :
            SortSelect(k)
                => /\ Len(emitted') = 1
                   /\ emitted'[1].sort_by = <<k>>
                   /\ emitted'[1].sort_order = <<EffectiveOrder(filters)>>
                   /\ SameConstraints(emitted'[1], filters)
       /\ SortDirectionButton
            => /\ Len(emitted') = 1
               /\ emitted'[1].sort_by = <<EffectiveKey(filters)>>
               /\ emitted'[1].sort_order \in {<<"asc">>, <<"desc">>}
               /\ EffectiveOrder(emitted'[1]) # EffectiveOrder(filters)
               /\ SameConstraints(emitted'[1], filters)]_vars

\* reached: the direction button was pressed over a committed state with tags
\* and no sort, and creation time ascending was emitted with the tags
C11_Witness ==
    /\ lastEvent = "sort"
    /\ Len(emitted) = 1
    /\ emitted[1].sort_by = <<"created_at">>
    /\ emitted[1].sort_order = <<"asc">>
    /\ emitted[1].dietary_tags # <<>>

-----------------------------------------------------------------------------
(* C12 *)

\* a search, a category or a tag constrains the list
Constrains(f) ==
    \/ (f.search # <<>> /\ Len(f.search[1]) > 0)
    \/ f.category # <<>>
    \/ (f.dietary_tags # <<>> /\ Len(f.dietary_tags[1]) > 0)

\* C12: the active-filter flag is true exactly when the committed state has a
\* non-empty search, a category or a non-empty tag array; with none of them
\* (the empty state, or a state with sort fields only) it is false and Clear
\* cannot be invoked.
C12_ActiveFlag ==
    /\ hasActiveFilters(filters) <=> Constrains(filters)
    /\ (filters.search = <<>> /\ filters.category = <<>> /\ filters.dietary_tags = <<>>)
          => (~hasActiveFilters(filters) /\ ~ENABLED clearAllFilters)

\* reached: a sort was picked over a state with no search, category or tag,
\* and the flag is false
C12_Witness ==
    /\ mounted
    /\ lastEvent = "sort"
    /\ filters.sort_by # <<>>
    /\ filters.sort_order # <<>>
    /\ ~Constrains(filters)
    /\ ~hasActiveFilters(filters)

-----------------------------------------------------------------------------
(* C13 *)

\* the FilterState with every field absent
NoFilters ==
    [search |-> <<>>, category |-> <<>>, sort_by |-> <<>>,
     sort_order |-> <<>>, dietary_tags |-> <<>>]

\* C13: Clear emits the empty FilterState, whatever the committed state, the
\* draft and the pending timer are, and the parent commits it.
C13_ClearEmitsEmpty ==
    [][(lastEvent' = "clear" /\ clearAllFilters)
            => (emitted' = <<NoFilters>> /\ filters' = NoFilters)]_vars

\* reached: Clear was invoked right after a draft edit, with the timer of the
\* edit pending, and emitted the empty state
C13_Witness ==
    /\ lastEvent = "clear"
    /\ emitted = <<NoFilters>>
    /\ prevDraft # undefined
    /\ Stripped(prevDraft[1]) # <<>>
    /\ Len(timers) = 1

-----------------------------------------------------------------------------
(* C14 *)

\* the step is a category pick, a sort change or a tag toggle
DiscreteStep ==
    /\ lastEvent' \in {"category", "sort", "tag"}
    /\ \/ \E category \in SearchCategories : handleCategoryChange(category)
       \/ \E value \in SearchSortKeys : SortSelect(value)
       \/ SortDirectionButton
       \/ \E tagId \in SearchTagIds : handleDietaryTagToggle(tagId)

\* C14 as stated: a category pick, sort change or tag toggle applied while a
\* search edit is pending neither cancels nor restarts the pending debounce
\* timer, which keeps the delay it had left.
C14_TimerUntouched ==
    [][(DiscreteStep /\ Uncommitted /\ timers # <<>>)
            => /\ Len(timers') = Len(timers)
               /\ \A k \in 1..Len(timers) :
                      timers'[k].remaining = timers[k].remaining]_vars

\* C14, amended: a category pick, sort change or tag toggle applied while a
\* search edit is pending cancels the pending debounce timer and starts a new
\* one with the full delay, for the same draft and the updated committed state;
\* the draft is kept.
C14_TimerRestarted ==
    [][(DiscreteStep /\ Uncommitted /\ timers # <<>>)
            => /\ Len(timers') = 1
               /\ timers'[1].remaining = DebounceMs
               /\ timers'[1].localSearch = localSearch
               /\ timers'[1].filters = filters'
               /\ localSearch' = localSearch]_vars

\* reached: a tag was toggled over a draft edit that was still pending, and
\* the one live timer has the full delay and the new committed state
C14_Witness ==
    /\ lastEvent = "tag"
    /\ prevDraft # undefined
    /\ localSearch = prevDraft[1]
    /\ Uncommitted
    /\ Len(timers) = 1
    /\ timers[1].remaining = DebounceMs
    /\ timers[1].filters = filters

-----------------------------------------------------------------------------
(* C15 *)

\* C15: a debounced emission that follows a category pick, sort change or tag
\* toggle applied during the pending edit carries the committed category, sort
\* and tags current at expiry, with the search replaced by the trimmed draft.
C15_NoLostUpdate ==
    [][(lastEvent' = "timer" /\ lastEvent \in {"category", "sort", "tag"}
          /\ TimerFire /\ emitted' # <<>>)
            => /\ Len(emitted') = 1
               /\ SameExcept(emitted'[1], filters, "search")
               /\ emitted'[1].search = SearchField(Stripped(localSearch))
               /\ filters' = emitted'[1]]_vars

\* reached: a tag was toggled on during a pending edit, and the debounced
\* emission that followed carries the tag and the typed search
C15_Witness ==
    /\ lastEvent = "timer"
    /\ firedAfter = "tag"
    /\ Len(emitted) = 1
    /\ emitted[1].dietary_tags # <<>>
    /\ emitted[1].search # <<>>
    /\ filters = emitted[1]

-----------------------------------------------------------------------------
(* C16 *)

\* C16: when the timer expires with the trimmed draft equal to the committed
\* search text (empty when absent), nothing is emitted, the committed state is
\* unchanged and the draft keeps the text as typed.
C16_SilentExpiry ==
    [][(lastEvent' = "timer" /\ TimerFire
          /\ Stripped(localSearch) = CommittedText(filters))
            => /\ emitted' = <<>>
               /\ filters' = filters
               /\ localSearch' = localSearch]_vars

\* reached: after a draft edit that changed surrounding spaces only, the
\* timer expired without an emission and the draft holds the untrimmed text
C16_Witness ==
    /\ lastEvent = "timer"
    /\ firedAfter = "search"
    /\ emitted = <<>>
    /\ timers = <<>>
    /\ localSearch # Stripped(localSearch)
    /\ Stripped(localSearch) = CommittedText(filters)

-----------------------------------------------------------------------------
(* C17 *)

\* the step is the host's: time passing or a timer expiring
HostStep == Tick \/ TimerFire

\* no timer is pending and, while mounted, the committed search is the
\* trimmed draft
Settled ==
    /\ timers = <<>>
    /\ mounted => ~Uncommitted

\* C17: if from some point on the only steps are the host's (no draft edit,
\* no other change of the committed state, no unmount), then from some point
\* on no timer is pending, the committed search is the trimmed draft, and
\* nothing more is emitted.
C17_Convergence == <>[][HostStep]_vars => <>[]Settled

\* reached: a trimmed-draft emission was applied, the timer that its render
\* started expired without emitting, and no timer is left
C17_Witness ==
    /\ mounted
    /\ lastEvent = "timer"
    /\ firedAfter = "timer"
    /\ emitted = <<>>
    /\ timers = <<>>
    /\ filters.search # <<>>
    /\ ~Uncommitted

-----------------------------------------------------------------------------
(* C18 *)

\* no identifier occurs twice in the array T
NoDuplicate(T) == \A i, j \in 1..Len(T) : T[i] = T[j] => i = j

\* the identifiers of the array T
Members(T) == {T[i] : i \in 1..Len(T)}

\* C18: a toggle of tag t applied to a duplicate-free committed tag array
\* leaves a duplicate-free array, and the array that a second toggle of t
\* computes from it has the identifiers of the original one: none when the
\* field was absent; when t was present, the others in their order and then t.
C18_TagsWellFormed ==
    [][lastEvent' = "tag" =>
         \A t \in TagIds :
            handleDietaryTagToggle(t) =>
              LET T     == CommittedTags(filters)
                  N     == CommittedTags(filters')
                  again == newTags(filters', t)
              IN  NoDuplicate(T)
                    => /\ NoDuplicate(N)
                       /\ NoDuplicate(again)
                       /\ Members(again) = Members(T)
                       /\ Len(again) = Len(T)
                       /\ (filters.dietary_tags = <<>>) => (again = <<>>)
                       /\ (t \in Members(T))
                             => again = SelectSeq(T, LAMBDA x : x # t) \o <<t>>
                       /\ (t \notin Members(T)) => again = T]_vars

\* reached: a tag was toggled and the committed array holds every tag, the
\* first of them last
C18_Witness ==
    /\ lastEvent = "tag"
    /\ Len(CommittedTags(filters)) = MaxTag
    /\ CommittedTags(filters)[MaxTag] = 1
    /\ NoDuplicate(CommittedTags(filters))
    /\ emitted = <<filters>>

-----------------------------------------------------------------------------
(* C19 *)

\* C19: when a debounced emission is applied and changes the committed
\* search, the draft becomes the committed search text, the trimmed text of the
\* draft as typed; and the timer expiry that follows an emitting one emits
\* nothing and leaves the committed state alone.
C19_DraftFollowsCommit ==
    [][(lastEvent' = "timer" /\ TimerFire) =>
         /\ (mounted /\ emitted' # <<>>)
               => /\ filters'.search # filters.search
                  /\ localSearch' = CommittedText(filters')
                  /\ localSearch' = Stripped(localSearch)
         /\ (lastEvent = "timer" /\ emitted # <<>>)
               => /\ emitted' = <<>>
                  /\ filters' = filters
                  /\ localSearch' = localSearch]_vars

\* reached: the debounced emission of a typed draft was applied, the draft
\* is the committed search text, and the timer of that render is pending
C19_Witness ==
    /\ mounted
    /\ lastEvent = "timer"
    /\ firedAfter = "search"
    /\ Len(emitted) = 1
    /\ filters = emitted[1]
    /\ filters.search # <<>>
    /\ localSearch = CommittedText(filters)
    /\ Len(timers) = 1
    /\ timers[1].remaining = DebounceMs

====
